---------------------------- MODULE Spec2Model ----------------------------
(***************************************************************************)
(* A model of slack_notifier.notifier.SlackNotifier: the percentage        *)
(* threshold gate, the progress report, and the emission of a notification *)
(* to the Slack webhook or to the process-wide "notifications" logger.     *)
(***************************************************************************)
EXTENDS Integers, Sequences, FiniteSets, TLC

VARIABLES
    use_logging,               \* self.use_logging
    system_name,               \* self.system_name
    notification_log_path,     \* self.notification_log_path
    logger_handlers,           \* handlers of logging.getLogger("notifications"): their paths
    notification_percentages,  \* self.notification_percentages
    last_notification_pct,     \* self.last_notification_pct
    total_files,               \* self.total_files
    processed_files,           \* self.processed_files
    error_files,               \* self.error_files
    args,                      \* the arguments the caller passes to the next notification
    last_call,                 \* what the most recent call did and returned
    fired,                     \* history: the percentages the gate returned True for, in order
    gate_calls,                \* history: calls of the gate made so far
    failed_calls               \* history: send_progress_notification calls with success = False

vars == << use_logging, system_name, notification_log_path, logger_handlers,
           notification_percentages, last_notification_pct, total_files,
           processed_files, error_files, args, last_call, fired, gate_calls,
           failed_calls >>

(***************************************************************************)
(* Bounds of the model.                                                    *)
(***************************************************************************)
MaxProcessed == 5
MaxCalls == 4
MaxInstances == 2
MaxFields == 21

\* for i in range(0, len(formatted_fields), 10)
GroupSize == 10

(***************************************************************************)
(* Python floats.  processed_files / total_files * 100 is two IEEE-754     *)
(* double operations, each rounded to nearest, ties to even, on a 53 bit   *)
(* mantissa.  A positive double is [a, b, c, lsb]: its mantissa is         *)
(* a * Limb^2 + b * Limb + c, in [2^52, 2^53), and its value is            *)
(* mantissa * 2^lsb.  The operands are integers below 4096.                *)
(***************************************************************************)
Limb == 2^18

\* Carry the limbs of a mantissa; a mantissa rounded up to 2^53 becomes 2^52.
Normalize(a, b, c, lsb) ==
    LET b1 == b + (c \div Limb)
        a1 == a + (b1 \div Limb)
    IN  IF a1 >= 2^17
        THEN [a |-> 2^16, b |-> 0, c |-> 0, lsb |-> lsb + 1]
        ELSE [a |-> a1, b |-> b1 % Limb, c |-> c % Limb, lsb |-> lsb]

RECURSIVE Log2Floor(_, _)
Log2Floor(p, t) == IF p >= 2 * t THEN 1 + Log2Floor(p, 2 * t) ELSE 0

RECURSIVE Log2Ceil(_, _)
Log2Ceil(p, t) == IF p < t THEN 1 + Log2Ceil(2 * p, t) ELSE 0

\* float(p) / float(t) for integers 0 < p, t < 4096: the quotient to 54
\* fractional bits by long division, then rounded to 52.
FloatDiv(p, t) ==
    LET up   == Log2Floor(p, t)
        down == Log2Ceil(p, t)
        num  == p * 2^down
        den  == t * 2^up
        r0   == num - den
        d1   == (r0 * Limb) \div den
        r1   == (r0 * Limb) % den
        d2   == (r1 * Limb) \div den
        r2   == (r1 * Limb) % den
        d3   == (r2 * Limb) \div den
        r3   == (r2 * Limb) % den
        a    == 2^16 + (d1 \div 4)
        b    == (d1 % 4) * 2^16 + (d2 \div 4)
        c    == (d2 % 4) * 2^16 + (d3 \div 4)
        low  == d3 % 4
        rnd  == low = 3 \/ (low = 2 /\ (r3 # 0 \/ c % 2 = 1))
    IN  Normalize(a, b, c + (IF rnd THEN 1 ELSE 0), (up - down) - 52)

\* x * 100.0 for a double x: 100 = 25 * 2^2, and 25 * mantissa has 57 or 58 bits.
FloatMul100(x) ==
    LET c1   == x.c * 25
        b1   == x.b * 25 + (c1 \div Limb)
        a1   == x.a * 25 + (b1 \div Limb)
        d    == IF a1 < 2^21 THEN 4 ELSE 5
        D    == 2^d
        low  == (c1 % Limb) % D
        c2   == ((c1 % Limb) \div D) + ((b1 % Limb) % D) * (Limb \div D)
        b2   == ((b1 % Limb) \div D) + (a1 % D) * (Limb \div D)
        a2   == a1 \div D
        rnd  == low > D \div 2 \/ (low = D \div 2 /\ c2 % 2 = 1)
    IN  Normalize(a2, b2, c2 + (IF rnd THEN 1 ELSE 0), x.lsb + 2 + d)

\* The largest integer n with n <= x, for x < 2^31: an int n compares exactly
\* with a float x, and x >= n exactly when floor(x) >= n.
FloatFloor(x) ==
    LET k == 0 - x.lsb
    IN  IF k >= 53 THEN 0
        ELSE IF k >= 36 THEN x.a \div 2^(k - 36)
        ELSE x.a * 2^(36 - k) + (x.b \div 2^(k - 18))

\* floor of (processed / total) * 100 as Python computes it.
current_pct(processed, total) ==
    IF processed = 0 THEN 0
    ELSE FloatFloor(FloatMul100(FloatDiv(processed, total)))


(***************************************************************************)
(* Python values.  None, a str and a dict (its items in insertion order)   *)
(* are told apart by their type, as isinstance and truth testing do.       *)
(***************************************************************************)
PyNone == [type |-> "NoneType"]
PyStr(text) == [type |-> "str", value |-> text]
PyDict(items) == [type |-> "dict", items |-> items]
PyList == [type |-> "list"]

Truthy(v) ==
    CASE v.type = "NoneType" -> FALSE
      [] v.type = "str"      -> v.value # ""
      [] v.type = "dict"     -> v.items # <<>>
      [] OTHER               -> TRUE

NotificationLevel == {"SUCCESS", "WARNING", "ERROR", "INFO", "DEBUG"}

\* NotificationLevel.<NAME>.value
Glyph(level) ==
    CASE level = "SUCCESS" -> "check-mark"
      [] level = "WARNING" -> "warning-sign"
      [] level = "ERROR"   -> "cross-mark"
      [] level = "INFO"    -> "information"
      [] level = "DEBUG"   -> "magnifier"

(***************************************************************************)
(* The "notifications" logger of the logging module: one per process,      *)
(* shared by every SlackNotifier, at level INFO, one handler per           *)
(* constructed SlackNotifier.                                              *)
(***************************************************************************)
LevelNo == [DEBUG |-> 10, INFO |-> 20, WARNING |-> 30, ERROR |-> 40]

LoggerLevel == "INFO"

\* Logger.error / warning / info / debug: the records the handlers append,
\* each to the file at its path.
logger_log(handlers, levelname, message) ==
    IF LevelNo[levelname] >= LevelNo[LoggerLevel]
    THEN [i \in 1..Len(handlers) |->
            [path |-> handlers[i], levelname |-> levelname, message |-> message]]
    ELSE <<>>

(***************************************************************************)
(* The threshold gate.                                                     *)
(***************************************************************************)
RECURSIVE Insert(_, _)
Insert(x, sorted) ==
    IF sorted = <<>> THEN << x >>
    ELSE IF x < Head(sorted) THEN << x >> \o sorted
    ELSE << Head(sorted) >> \o Insert(x, Tail(sorted))

\* sorted([int(x) for x in notification_pcts.split(",")])
RECURSIVE Sorted(_)
Sorted(pcts) ==
    IF pcts = <<>> THEN <<>> ELSE Insert(pcts[Len(pcts)], Sorted(SubSeq(pcts, 1, Len(pcts) - 1)))

\* The loop without "> self.last_notification_pct".
RECURSIVE scan_ignoring_last(_, _, _, _)
scan_ignoring_last(pcts, i, current, last) ==
    IF i > Len(pcts) THEN [found |-> FALSE, pct |-> last]
    ELSE IF current >= pcts[i] THEN [found |-> TRUE, pct |-> pcts[i]]
    ELSE scan_ignoring_last(pcts, i + 1, current, last)

\* The loop with ">= self.last_notification_pct" for ">".
RECURSIVE scan_refiring(_, _, _, _)
scan_refiring(pcts, i, current, last) ==
    IF i > Len(pcts) THEN [found |-> FALSE, pct |-> last]
    ELSE IF current >= pcts[i] /\ pcts[i] >= last /\ pcts[i] > 0
    THEN [found |-> TRUE, pct |-> pcts[i]]
    ELSE scan_refiring(pcts, i + 1, current, last)

\* The loop without its early return: the last percentage crossed wins.
RECURSIVE scan_to_the_end(_, _, _, _)
scan_to_the_end(pcts, i, current, last) ==
    IF i > Len(pcts) THEN [found |-> FALSE, pct |-> last]
    ELSE LET rest == scan_to_the_end(pcts, i + 1, current, last)
         IN  IF rest.found THEN rest
             ELSE IF current >= pcts[i] /\ pcts[i] > last
             THEN [found |-> TRUE, pct |-> pcts[i]]
             ELSE rest

\* The for loop of should_send_notification, from position i on: the first
\* percentage of the list with current >= percentage > last.
RECURSIVE scan_percentages(_, _, _, _)
scan_percentages(pcts, i, current, last) ==
    IF i > Len(pcts) THEN [found |-> FALSE, pct |-> last]
    ELSE IF current >= pcts[i] /\ pcts[i] > last THEN [found |-> TRUE, pct |-> pcts[i]]
    ELSE scan_percentages(pcts, i + 1, current, last)

\* should_send_notification: what it returns and the last_notification_pct it leaves.
gate(pcts, last, processed, total) ==
    IF total = 0 THEN [ret |-> FALSE, last |-> last]
    ELSE LET hit == scan_percentages(pcts, 1, current_pct(processed, total), last)
         IN  [ret |-> hit.found, last |-> hit.pct]

(***************************************************************************)
(* Formatting for the log file.  A text is the sequence of its parts.      *)
(***************************************************************************)
\* _format_fields_for_logging
_format_fields_for_logging(fields) ==
    IF ~Truthy(fields) THEN <<>>
    ELSE [i \in 1..Len(fields.items) |->
            LET key   == fields.items[i][1]
                value == fields.items[i][2]
            IN  IF value.type = "dict"
                THEN << "nested", key, value.items >>
                ELSE << "plain", key, value >>]

\* _format_code_blocks_for_logging: a str has no items(), the call raises.
_format_code_blocks_for_logging(fields_code_block) ==
    IF ~Truthy(fields_code_block) THEN [raised |-> FALSE, text |-> <<>>]
    ELSE IF fields_code_block.type = "dict"
    THEN [raised |-> FALSE,
          text |-> [i \in 1..Len(fields_code_block.items) |->
                      << fields_code_block.items[i][1], fields_code_block.items[i][2] >>]]
    ELSE [raised |-> TRUE, text |-> <<>>]

\* _log_notification: the records appended, or the exception.
_log_notification(handlers, level, message, title, fields, fields_code_block) ==
    LET head        == IF Truthy(title) THEN << << "===", title.value, "===" >> >> ELSE <<>>
        main        == << << Glyph(level), level, message >> >>
        fields_str  == _format_fields_for_logging(fields)
        code_blocks == _format_code_blocks_for_logging(fields_code_block)
        complete_message ==
            head \o main
                 \o (IF fields_str # <<>> THEN << << "Fields:", fields_str >> >> ELSE <<>>)
                 \o (IF code_blocks.text # <<>>
                     THEN << << "Code Blocks:", code_blocks.text >> >> ELSE <<>>)
        levelname   == CASE level = "ERROR"   -> "ERROR"
                         [] level = "WARNING" -> "WARNING"
                         [] level = "DEBUG"   -> "DEBUG"
                         [] OTHER             -> "INFO"
    IN  IF code_blocks.raised THEN [raised |-> TRUE, records |-> <<>>]
        ELSE [raised |-> FALSE, records |-> logger_log(handlers, levelname, complete_message)]

(***************************************************************************)
(* Formatting for Slack.                                                   *)
(***************************************************************************)
Min(a, b) == IF a < b THEN a ELSE b

\* The groups without the last, shorter one: range(0, len - 9, 10).
field_groups_dropping_rest(formatted_fields) ==
    [g \in 1..(Len(formatted_fields) \div GroupSize) |->
        SubSeq(formatted_fields, (g - 1) * GroupSize + 1, g * GroupSize)]

\* [formatted_fields[i : i + 10] for i in range(0, len(formatted_fields), 10)]
field_groups(formatted_fields) ==
    LET n == Len(formatted_fields)
    IN  [g \in 1..((n + GroupSize - 1) \div GroupSize) |->
            SubSeq(formatted_fields, (g - 1) * GroupSize + 1, Min(g * GroupSize, n))]

\* json.loads on the strings a caller passes here.
json_loads(text) ==
    CASE text = "{\"stack\": \"trace\"}" ->
             [decoded |-> TRUE, value |-> PyDict(<< << "stack", "trace" >> >>)]
      [] text = "{}"     -> [decoded |-> TRUE, value |-> PyDict(<<>>)]
      [] text = "[1, 2]" -> [decoded |-> TRUE, value |-> PyList]
      [] OTHER           -> [decoded |-> FALSE, value |-> PyNone]

code_sections(items) ==
    [i \in 1..Len(items) |->
        [type |-> "section",
         text |-> [type |-> "mrkdwn", text |-> << "code", items[i][1], items[i][2] >>]]]

\* _create_message_blocks: the blocks, or the exception of a decoded value
\* that has no items().
_create_message_blocks(name, level, message, title, fields, fields_code_block) ==
    LET header == IF Truthy(title)
                  THEN << [type |-> "header",
                           text |-> [type |-> "plain_text", text |-> title.value]] >>
                  ELSE <<>>
        body   == << [type |-> "section",
                      text |-> [type |-> "mrkdwn",
                                text |-> << "body", Glyph(level), level, message >>]] >>
        formatted_fields ==
            [i \in 1..Len(fields.items) |->
                LET key   == fields.items[i][1]
                    value == fields.items[i][2]
                IN  [type |-> "mrkdwn",
                     text |-> IF value.type = "dict"
                              THEN << key, "bullets", value.items >>
                              ELSE << key, "str", value >>]]
        groups == IF Truthy(fields) THEN field_groups(formatted_fields) ELSE <<>>
        field_sections ==
            [g \in 1..Len(groups) |-> [type |-> "section", fields |-> groups[g]]]
        loaded == json_loads(fields_code_block.value)
        code   == IF ~Truthy(fields_code_block) THEN [raised |-> FALSE, blocks |-> <<>>]
                  ELSE IF fields_code_block.type = "dict"
                  THEN [raised |-> FALSE, blocks |-> code_sections(fields_code_block.items)]
                  ELSE IF fields_code_block.type # "str"
                  THEN [raised |-> FALSE, blocks |-> <<>>]
                  ELSE IF ~loaded.decoded
                  THEN [raised |-> FALSE,
                        blocks |-> << [type |-> "section",
                                       text |-> [type |-> "mrkdwn",
                                                 text |-> << "code", fields_code_block.value >>]] >>]
                  ELSE IF loaded.value.type = "dict"
                  THEN [raised |-> FALSE, blocks |-> code_sections(loaded.value.items)]
                  ELSE [raised |-> TRUE, blocks |-> <<>>]
        footer == << [type |-> "context",
                      elements |-> << [type |-> "mrkdwn",
                                       text |-> << "System:", name, "Sent at:", "now" >>] >>] >>
    IN  IF code.raised THEN [raised |-> TRUE, blocks |-> <<>>]
        ELSE [raised |-> FALSE,
              blocks |-> header \o body \o field_sections \o code.blocks \o footer]

(***************************************************************************)
(* Sending.  The transport is what the requests library does with one      *)
(* POST: "ok" (a response raise_for_status accepts), "http_error" (a       *)
(* response raise_for_status raises on) or "raise" (requests.post raises). *)
(***************************************************************************)
Transports == {"ok", "http_error", "raise"}

\* requests.post(self.webhook_url, json={"blocks": blocks}, headers=...)
_send_to_slack(blocks, transport) ==
    [raised   |-> transport = "raise",
     request  |-> [json |-> [blocks |-> blocks], content_type |-> "application/json"],
     response |-> [ok |-> transport = "ok"]]

\* send_notification without the call of raise_for_status.
status_not_checked(response) == FALSE

\* response.raise_for_status(): whether it raises.
raise_for_status(response) == ~response.ok

\* The try block of send_notification: what it returns, or that it raised,
\* with the POSTs issued and the log records appended on the way.
send_notification_try(self, level, message, title, fields, fields_code_block, transport) ==
    LET logged == _log_notification(self.handlers, level, message, title, fields,
                                    fields_code_block)
        made   == _create_message_blocks(self.system_name, level, message, title, fields,
                                         fields_code_block)
        sent   == _send_to_slack(made.blocks, transport)
    IN  IF self.use_logging
        THEN [raised |-> logged.raised, requests |-> <<>>, records |-> logged.records]
        ELSE IF made.raised
        THEN [raised |-> TRUE, requests |-> <<>>, records |-> <<>>]
        ELSE IF sent.raised
        THEN [raised |-> TRUE, requests |-> << sent.request >>, records |-> <<>>]
        ELSE [raised |-> raise_for_status(sent.response),
              requests |-> << sent.request >>, records |-> <<>>]

\* except Exception: the error goes to the root logger and the call returns False.
send_notification(self, level, message, title, fields, fields_code_block, transport) ==
    LET try == send_notification_try(self, level, message, title, fields,
                                     fields_code_block, transport)
    IN  [ret         |-> IF try.raised THEN "False" ELSE "True",
         raised      |-> FALSE,
         requests    |-> try.requests,
         records     |-> try.records,
         diagnostics |-> IF try.raised /\ ~self.use_logging THEN 1 ELSE 0]

(***************************************************************************)
(* The state machine.                                                      *)
(***************************************************************************)
Self == [use_logging |-> use_logging, system_name |-> system_name,
         handlers |-> logger_handlers]

DefaultLogPath == "notifications.log"

GateOps == {"should_send_notification", "send_progress_notification"}

\* How the gate calls made since the caller last set processed_files ended:
\* the one just before this call, and whether any of them returned True.
Previous ==
    IF last_call.op \notin GateOps THEN "none"
    ELSE IF last_call.crossed THEN "true" ELSE "false"

EarlierTrue == last_call.op \in GateOps /\ (last_call.crossed \/ last_call.earlier_true)

\* What a call that sends nothing leaves in last_call.
Quiet(op, ret) ==
    [op |-> op, level |-> "", transport |-> "", ret |-> ret, raised |-> FALSE,
     crossed |-> FALSE, pct_before |-> last_notification_pct,
     previous |-> "none", earlier_true |-> FALSE,
     requests |-> <<>>, records |-> <<>>, diagnostics |-> 0]

Sent(op, level, transport, out) ==
    [op |-> op, level |-> level, transport |-> transport, ret |-> out.ret,
     raised |-> out.raised, crossed |-> FALSE, pct_before |-> last_notification_pct,
     previous |-> "none", earlier_true |-> FALSE,
     requests |-> out.requests, records |-> out.records, diagnostics |-> out.diagnostics]

\* The record SlackNotifier.__init__ logs once its handler is added.
init_records(handlers, logging) ==
    logger_log(handlers, IF logging THEN "INFO" ELSE "DEBUG", << << "SlackNotifier initialized" >> >>)

PercentageConfigs ==
    { << 20, 100 >>, << 100, 20 >>, << 50 >>, << 20, 20, 100 >>, << 0, 58 >>,
      << 25, 50, 75, 100 >> }

TotalChoices == {0, 4, 5, 50}

ProcessedChoices == (0..MaxProcessed) \cup {29, 50}

NoArgs == [message |-> "", title |-> PyNone, fields |-> PyNone, fields_code_block |-> PyNone]

\* SlackNotifier(webhook_url=..., total_files=...) with NOTIFICATION_PERCENTAGES set.
Init ==
    /\ use_logging \in BOOLEAN
    /\ system_name = "TestSystem"
    /\ notification_log_path = DefaultLogPath
    /\ logger_handlers = << DefaultLogPath >>
    /\ \E config \in PercentageConfigs : notification_percentages = Sorted(config)
    /\ last_notification_pct = 0
    /\ total_files \in TotalChoices
    /\ processed_files = 0
    /\ error_files = 0
    /\ args = NoArgs
    /\ last_call = [Quiet("__init__", "None") EXCEPT
                      !.pct_before = 0,
                      !.records = init_records(logger_handlers, use_logging)]
    /\ fired = <<>>
    /\ gate_calls = 0
    /\ failed_calls = 0

\* The caller sets notifier.processed_files.
set_processed_files(n) ==
    /\ processed_files' = n
    /\ last_call' = Quiet("caller", "None")
    /\ UNCHANGED << use_logging, system_name, notification_log_path, logger_handlers,
                    notification_percentages, last_notification_pct, total_files,
                    error_files, args, fired, gate_calls, failed_calls >>

\* notifier.should_send_notification()
should_send_notification ==
    /\ gate_calls < MaxCalls
    /\ LET g == gate(notification_percentages, last_notification_pct, processed_files,
                     total_files)
       IN  /\ last_notification_pct' = g.last
           /\ fired' = IF g.ret THEN Append(fired, g.last) ELSE fired
           /\ last_call' = [Quiet("should_send_notification", IF g.ret THEN "True" ELSE "False")
                              EXCEPT !.crossed = g.ret, !.previous = Previous,
                                     !.earlier_true = EarlierTrue]
    /\ gate_calls' = gate_calls + 1
    /\ UNCHANGED << use_logging, system_name, notification_log_path, logger_handlers,
                    notification_percentages, total_files, processed_files, error_files,
                    args, failed_calls >>

\* The fields of the progress message, from the counters as they are when it is built.
progress_fields(errors) ==
    PyDict(<< << "Files Processed", PyStr(<< processed_files, "/", total_files >>) >>,
              << "Error Files", PyStr(errors) >>,
              << "Processing Rate", PyStr("files/hour") >>,
              << "Elapsed Time", PyStr("hours") >> >>)

\* notifier.send_progress_notification(success)
send_progress_notification(success, transport) ==
    /\ gate_calls < MaxCalls
    /\ LET g      == gate(notification_percentages, last_notification_pct, processed_files,
                          total_files)
           errors == IF g.ret /\ ~success THEN error_files + 1 ELSE error_files
           out    == send_notification(Self, "INFO", "Processing Progress", PyNone,
                                       progress_fields(errors), PyNone, transport)
       IN  /\ last_notification_pct' = g.last
           /\ fired' = IF g.ret THEN Append(fired, g.last) ELSE fired
           /\ error_files' = errors
           /\ last_call' =
                IF g.ret
                THEN [Sent("send_progress_notification", "INFO", transport, out)
                        EXCEPT !.ret = "None", !.crossed = TRUE, !.previous = Previous,
                               !.earlier_true = EarlierTrue]
                ELSE [Quiet("send_progress_notification", "None")
                        EXCEPT !.previous = Previous, !.earlier_true = EarlierTrue]
    /\ gate_calls' = gate_calls + 1
    /\ failed_calls' = IF success THEN failed_calls ELSE failed_calls + 1
    /\ UNCHANGED << use_logging, system_name, notification_log_path, logger_handlers,
                    notification_percentages, total_files, processed_files, args >>

Next ==
    \/ \E n \in ProcessedChoices : set_processed_files(n)
    \/ should_send_notification
    \/ \E success \in BOOLEAN, transport \in Transports :
          send_progress_notification(success, transport)

Spec == Init /\ [][Next]_vars

(***************************************************************************)
(* Notifications.  The caller's arguments are drawn once; any number of    *)
(* further SlackNotifier objects may be constructed in the process before  *)
(* and between the calls.                                                  *)
(***************************************************************************)
TitleChoices == { PyNone, PyStr(""), PyStr("Test Title") }

\* A fields mapping of n entries; every third value is itself a mapping.
Fields(n) ==
    [i \in 1..n |->
        << i, IF i % 3 = 0 THEN PyDict(<< << "k", "v" >> >>) ELSE PyStr("value") >>]

\* The sizes around the group boundaries.
FieldCounts == { n \in 0..MaxFields : n % 10 \in {0, 1, 2, 9} }

FieldsChoices == { PyNone } \cup { PyDict(Fields(n)) : n \in FieldCounts }

CodeBlockChoices ==
    { PyNone, PyDict(<<>>), PyDict(<< << "log", "line" >>, << "cmd", "ls" >> >>),
      PyStr(""), PyStr("{\"stack\": \"trace\"}"), PyStr("{}"), PyStr("[1, 2]"),
      PyStr("plain text") }

ArgChoices ==
    [message : {"Test message"}, title : TitleChoices, fields : FieldsChoices,
     fields_code_block : CodeBlockChoices]

LogPaths == { DefaultLogPath, "other.log" }

NotifyInit ==
    /\ use_logging \in BOOLEAN
    /\ system_name = "TestSystem"
    /\ notification_log_path = DefaultLogPath
    /\ logger_handlers = << DefaultLogPath >>
    /\ notification_percentages = Sorted(<< 20, 100 >>)
    /\ last_notification_pct = 0
    /\ total_files = 0
    /\ processed_files = 0
    /\ error_files = 0
    /\ args \in ArgChoices
    /\ last_call = [Quiet("__init__", "None") EXCEPT
                      !.pct_before = 0,
                      !.records = init_records(logger_handlers, use_logging)]
    /\ fired = <<>>
    /\ gate_calls = 0
    /\ failed_calls = 0

\* Another SlackNotifier(notification_log_path=path, ...) is constructed: its
\* handler joins the shared logger, and its first record goes to every handler.
NewSlackNotifier(path, logging) ==
    /\ Len(logger_handlers) < MaxInstances
    /\ logger_handlers' = Append(logger_handlers, path)
    /\ last_call' = [Quiet("__init__", "None") EXCEPT
                       !.records = init_records(logger_handlers', logging)]
    /\ UNCHANGED << use_logging, system_name, notification_log_path,
                    notification_percentages, last_notification_pct, total_files,
                    processed_files, error_files, args, fired, gate_calls, failed_calls >>

\* One call of send_notification with the caller's arguments.
Notified(op, level, transport) ==
    Sent(op, level, transport,
         send_notification(Self, level, args.message, args.title, args.fields,
                           args.fields_code_block, transport))

NotifierState ==
    << use_logging, system_name, notification_log_path, logger_handlers,
       notification_percentages, last_notification_pct, total_files, processed_files,
       error_files, args, fired, gate_calls, failed_calls >>

call_send_notification(level, transport) ==
    /\ last_call' = Notified("send_notification", level, transport)
    /\ UNCHANGED NotifierState

send_success(transport) ==
    /\ last_call' = Notified("send_success", "SUCCESS", transport)
    /\ UNCHANGED NotifierState

send_warning(transport) ==
    /\ last_call' = Notified("send_warning", "WARNING", transport)
    /\ UNCHANGED NotifierState

send_error(transport) ==
    /\ last_call' = Notified("send_error", "ERROR", transport)
    /\ UNCHANGED NotifierState

send_info(transport) ==
    /\ last_call' = Notified("send_info", "INFO", transport)
    /\ UNCHANGED NotifierState

send_debug(transport) ==
    /\ last_call' = Notified("send_debug", "DEBUG", transport)
    /\ UNCHANGED NotifierState

NotifyNext ==
    \/ \E path \in LogPaths, logging \in BOOLEAN : NewSlackNotifier(path, logging)
    \/ \E level \in NotificationLevel, transport \in Transports :
          call_send_notification(level, transport)
    \/ \E transport \in Transports : send_success(transport)
    \/ \E transport \in Transports : send_warning(transport)
    \/ \E transport \in Transports : send_error(transport)
    \/ \E transport \in Transports : send_info(transport)
    \/ \E transport \in Transports : send_debug(transport)

NotifySpec == NotifyInit /\ [][NotifyNext]_vars

(***************************************************************************)
(* Properties.                                                             *)
(***************************************************************************)
Range(seq) == { seq[i] : i \in 1..Len(seq) }

NotifyOps ==
    {"send_notification", "send_success", "send_warning", "send_error", "send_info",
     "send_debug"}

AfterGate == last_call.op \in GateOps

AfterNotify == last_call.op \in NotifyOps

\* The percentages the call just made could have returned True for.
Crossable ==
    IF total_files = 0 THEN {}
    ELSE { t \in Range(notification_percentages) :
             last_call.pct_before < t /\ t <= current_pct(processed_files, total_files) }

SetMin(S) == CHOOSE x \in S : \A y \in S : x <= y

\* The records of the last call that went to this notifier's own log file.
OwnRecords == SelectSeq(last_call.records, LAMBDA r : r.path = notification_log_path)

\* C1: every percentage of the list makes the gate return True at most once,
\* the ones that do come in strictly ascending order, a percentage fires only
\* on a call where processed_files / total_files * 100 has reached it, and
\* last_notification_pct never decreases.
C1_FiresOnceAscending ==
    /\ [](/\ \A i \in 1..Len(fired) : fired[i] \in Range(notification_percentages)
          /\ \A i, j \in 1..Len(fired) : i < j => fired[i] < fired[j]
          /\ (AfterGate /\ last_call.crossed) =>
                /\ total_files > 0
                /\ fired # <<>>
                /\ fired[Len(fired)] = last_notification_pct
                /\ last_notification_pct <= current_pct(processed_files, total_files))
    /\ [][last_notification_pct' >= last_notification_pct]_vars

C1_Witness ==
    /\ fired = << 25, 50, 75, 100 >>
    /\ AfterGate
    /\ last_call.crossed

\* C2: one call of the gate returns True exactly when total_files > 0 and some
\* percentage t of the list has last_notification_pct < t <= current
\* percentage; last_notification_pct then becomes the smallest such t, and
\* otherwise the call returns False and leaves it as it was.
C2_GateCall ==
    AfterGate =>
        /\ last_call.crossed <=> (total_files > 0 /\ Crossable # {})
        /\ last_call.crossed => last_notification_pct = SetMin(Crossable)
        /\ ~last_call.crossed => last_notification_pct = last_call.pct_before
        /\ last_call.op = "should_send_notification" =>
              last_call.ret = (IF last_call.crossed THEN "True" ELSE "False")

C2_Witness ==
    /\ last_call.op = "should_send_notification"
    /\ last_call.ret = "True"
    /\ Cardinality(Crossable) >= 3
    /\ last_notification_pct = 25

\* The percentage stops short of an exact threshold where the doubles round
\* down: 29 of 50 files is 57.99999999999999, so 58 is not crossed.
RoundedBelow ==
    /\ total_files = 50
    /\ processed_files = 29
    /\ notification_percentages = << 0, 58 >>
    /\ last_call.op = "should_send_notification"
    /\ last_call.ret = "False"

\* The first gate call since construction, made at 100% with percentages 20,100.
JumpToHundred ==
    /\ notification_percentages = << 20, 100 >>
    /\ total_files > 0
    /\ processed_files = total_files
    /\ gate_calls = 1
    /\ AfterGate

\* C3 as stated: after a jump from 0% to 100% with percentages {20, 100},
\* exactly one notification fires, and it is the one for 100.
C3_JumpFiresHundred == JumpToHundred => fired = << 100 >>

\* C3 amended: the call at 100% fires exactly one notification, and it is the
\* one for 20, the lowest; 100 is left for a later call.
C3_JumpFiresLowest ==
    JumpToHundred =>
        /\ fired = << 20 >>
        /\ last_notification_pct = 20
        /\ last_call.crossed
        /\ last_call.op = "send_progress_notification" =>
              Len(last_call.requests) + Len(last_call.records) = 1

C3_Witness ==
    /\ JumpToHundred
    /\ last_call.op = "send_progress_notification"
    /\ Len(last_call.requests) = 1

\* C4 as stated: once a gate call has returned True, every later call made
\* while processed_files is unchanged returns False.
C4_NoLaterTrue == (AfterGate /\ last_call.earlier_true) => ~last_call.crossed

\* C4 amended: a later call at the same percentage returns True only for a
\* percentage strictly above the one fired before (never the same one again),
\* and once a call has returned False every later call there returns False.
C4_RefiresOnlyHigher ==
    (AfterGate /\ last_call.previous # "none") =>
        /\ last_call.previous = "false" => ~last_call.crossed
        /\ last_call.crossed =>
              /\ last_call.previous = "true"
              /\ last_notification_pct > last_call.pct_before
              /\ last_call.pct_before \in Range(fired)

C4_Witness ==
    /\ AfterGate
    /\ last_call.previous = "true"
    /\ last_call.crossed
    /\ fired = << 20, 100 >>

\* C5: error_files is the number of send_progress_notification calls made
\* with success = False.
C5_ErrorsCounted == error_files = failed_calls

\* C6: in remote mode, a POST that fails (requests.post raises, or
\* raise_for_status raises on the response) makes send_notification and each
\* wrapper return False, without an exception, after exactly one POST.
C6_FailedPost ==
    (/\ AfterNotify
     /\ ~use_logging
     /\ last_call.transport # "ok") =>
        /\ last_call.ret = "False"
        /\ ~last_call.raised
        /\ Len(last_call.requests) <= 1
        /\ ~_create_message_blocks(system_name, last_call.level, args.message, args.title,
                                   args.fields, args.fields_code_block).raised
              => Len(last_call.requests) = 1

C6_Witness ==
    /\ last_call.op = "send_warning"
    /\ ~use_logging
    /\ last_call.transport = "http_error"
    /\ last_call.ret = "False"
    /\ Len(last_call.requests) = 1
    /\ last_call.diagnostics = 1

\* C7: in local-log mode send_notification returns True for every level and
\* every input, code-block fields given as a raw string included.
C7_LocalNeverFalse == (AfterNotify /\ use_logging) => last_call.ret = "True"

\* C8: in local-log mode every send_notification call appends exactly one
\* record to the log file, with the glyph, the level name and the message,
\* for each of the five levels and however many notifiers were constructed.
C8_OneRecordPerCall ==
    (AfterNotify /\ use_logging) =>
        /\ Len(OwnRecords) = 1
        /\ \E i \in 1..Len(OwnRecords[1].message) :
              OwnRecords[1].message[i] = << Glyph(last_call.level), last_call.level, args.message >>

BlockKind(block) ==
    IF block.type = "header" THEN "header"
    ELSE IF block.type = "context" THEN "footer"
    ELSE IF "fields" \in DOMAIN block THEN "group"
    ELSE block.text.text[1]

KindRank(kind) ==
    CASE kind = "header" -> 1
      [] kind = "body"   -> 2
      [] kind = "group"  -> 3
      [] kind = "code"   -> 4
      [] kind = "footer" -> 5

\* header (exactly when a title is given), one body, the field groups, the
\* code blocks, and one footer with the system name, last.
Ordered(blocks) ==
    LET kinds == [i \in 1..Len(blocks) |-> BlockKind(blocks[i])]
        count(k) == Cardinality({ i \in 1..Len(blocks) : kinds[i] = k })
    IN  /\ \A i, j \in 1..Len(blocks) : i < j => KindRank(kinds[i]) <= KindRank(kinds[j])
        /\ count("header") = (IF Truthy(args.title) THEN 1 ELSE 0)
        /\ count("body") = 1
        /\ count("footer") = 1
        /\ kinds[Len(blocks)] = "footer"
        /\ blocks[Len(blocks)].elements[1].text[2] = system_name

\* C9: in remote mode with a transport that succeeds, send_notification
\* returns True after exactly one request, whose blocks are the optional
\* header, the body, the field groups, the code blocks and the footer.
C9_OneOrderedRequest ==
    (/\ AfterNotify
     /\ ~use_logging
     /\ last_call.transport = "ok") =>
        /\ last_call.ret = "True"
        /\ Len(last_call.requests) = 1
        /\ Ordered(last_call.requests[1].json.blocks)

\* The field groups of a request, in order.
GroupsOf(blocks) ==
    LET at == SelectSeq(blocks, LAMBDA b : BlockKind(b) = "group")
    IN  [g \in 1..Len(at) |-> at[g].fields]

RECURSIVE Flatten(_)
Flatten(groups) ==
    IF groups = <<>> THEN <<>> ELSE Head(groups) \o Flatten(Tail(groups))

FieldCount == IF args.fields.type = "dict" THEN Len(args.fields.items) ELSE 0

\* C10: in remote mode n fields make ceil(n / 10) field groups, each of at
\* most 10 fields and all but the last of exactly 10, which together are the
\* fields in their order; no field makes no group.
C10_FieldGroups ==
    (AfterNotify /\ last_call.requests # <<>>) =>
        LET groups == GroupsOf(last_call.requests[1].json.blocks)
            flat   == Flatten(groups)
        IN  /\ Len(groups) = (FieldCount + 9) \div 10
            /\ \A g \in 1..Len(groups) : Len(groups[g]) >= 1 /\ Len(groups[g]) <= 10
            /\ \A g \in 1..(Len(groups) - 1) : Len(groups[g]) = 10
            /\ Len(flat) = FieldCount
            /\ \A i \in 1..Len(flat) : flat[i].text[1] = args.fields.items[i][1]

C10_Witness ==
    /\ AfterNotify
    /\ FieldCount = 12
    /\ last_call.requests # <<>>
    /\ LET groups == GroupsOf(last_call.requests[1].json.blocks)
       IN  Len(groups) = 2 /\ Len(groups[1]) = 10 /\ Len(groups[2]) = 2

=============================================================================
